---- MODULE Spec2Model ----
(***************************************************************************)
(* Model of internal/cmd/convertshaders/main.go: the shader conversion     *)
(* pipeline (generate), the reflection parser (parseReflection) and the    *)
(* type mapper (parseDataType).                                            *)
(*                                                                         *)
(* Three specifications share the variables below:                         *)
(*   Spec      - one run of generate over a globbed list of shader files,  *)
(*               with the external tools (glslcc, fxc, gofmt, filesystem)  *)
(*               answering nondeterministically from small sets;           *)
(*   SpecParse - parseReflection applied to a reflection document drawn    *)
(*               from a bounded set, once and then again on the same       *)
(*               output record;                                            *)
(*   SpecType  - parseDataType applied to a list of type tokens.           *)
(***************************************************************************)
EXTENDS Integers, Sequences, FiniteSets, TLC

VARIABLES
    \* ---- generate ----
    pc,          \* position of generate (see the actions below)
    shaders,     \* result of filepath.Glob("shaders/*")
    fxcFound,    \* err == nil of exec.LookPath("fxc")
    si,          \* index of the shader file in progress (1-based)
    vi,          \* index i of the variant in progress (0-based, as in the code)
    variants,    \* var variants [nvariants]struct{ShaderSources; hlslSrc}
    loc,         \* locals of the variant loop body: glsl100, reflect, glsl300, hlsl, hlslc
    out,         \* bytes.Buffer out, as the sequence of entries written into it
    gosrc,       \* result of format.Source(out.Bytes())
    artifact,    \* the file shaders.go
    err,         \* the error generate returns
    steps,       \* the calls made for the variant in progress, in order, with their errors
    ncompile,    \* number of compileHLSL invocations in this run
    \* ---- parseReflection harness ----
    pdoc,        \* jsonData
    pinfo,       \* *info, the output record
    perr,        \* the error of the last parse
    pcount,      \* number of parses made into pinfo
    pfirst,      \* pinfo as it was after the first parse
    \* ---- parseDataType harness ----
    ttokens,     \* the tokens to map
    tresults     \* the results, one per token mapped so far

genVars   == <<pc, shaders, fxcFound, si, vi, variants, loc, out, gosrc, artifact,
               err, steps, ncompile>>
parseVars == <<pdoc, pinfo, perr, pcount, pfirst>>
typeVars  == <<ttokens, tresults>>
vars      == <<genVars, parseVars, typeVars>>

(***************************************************************************)
(* Bounds of the model.                                                    *)
(***************************************************************************)
MaxInputs  == 3   \* vertex inputs per reflection stage; locations are 0..MaxInputs-1
MaxBlocks  == 2   \* uniform blocks per reflection stage
MaxParses  == 2   \* parses made into one output record
MaxTokens  == 2   \* tokens mapped in one run of the type harness
MaxShaders == 2   \* files found by the glob

(***************************************************************************)
(* Values.                                                                 *)
(***************************************************************************)
NoErr == ""

\* backend.DataTypeFloat, backend.DataTypeInt: iota constants of package
\* gioui.org/gpu/backend.
DataTypeFloat == 0
DataTypeInt   == 1

\* const nvariants = 2
nvariants == 2

(***************************************************************************)
(* parseDataType (main.go:269-290).                                        *)
(***************************************************************************)
TypeResult(t, n, e) == [type |-> t, size |-> n, err |-> e]

\* Faulty variant: the default case answers float instead of an error.
parseDataType_lenient(t) ==
    CASE t = "float"  -> TypeResult(DataTypeFloat, 1, NoErr)
      [] t = "float2" -> TypeResult(DataTypeFloat, 2, NoErr)
      [] t = "float3" -> TypeResult(DataTypeFloat, 3, NoErr)
      [] t = "float4" -> TypeResult(DataTypeFloat, 4, NoErr)
      [] t = "int"    -> TypeResult(DataTypeInt, 1, NoErr)
      [] t = "int2"   -> TypeResult(DataTypeInt, 2, NoErr)
      [] t = "int3"   -> TypeResult(DataTypeInt, 3, NoErr)
      [] t = "int4"   -> TypeResult(DataTypeInt, 4, NoErr)
      [] OTHER        -> TypeResult(DataTypeFloat, 1, NoErr)

\* Faulty variant: the int4 case is missing.
parseDataType_noInt4(t) ==
    CASE t = "float"  -> TypeResult(DataTypeFloat, 1, NoErr)
      [] t = "float2" -> TypeResult(DataTypeFloat, 2, NoErr)
      [] t = "float3" -> TypeResult(DataTypeFloat, 3, NoErr)
      [] t = "float4" -> TypeResult(DataTypeFloat, 4, NoErr)
      [] t = "int"    -> TypeResult(DataTypeInt, 1, NoErr)
      [] t = "int2"   -> TypeResult(DataTypeInt, 2, NoErr)
      [] t = "int3"   -> TypeResult(DataTypeInt, 3, NoErr)
      [] OTHER        -> TypeResult(0, 0, "unsupported input data type: " \o t)

\* parseDataType(t): the (DataType, size, error) returned.
parseDataType(t) ==
    CASE t = "float"  -> TypeResult(DataTypeFloat, 1, NoErr)
      [] t = "float2" -> TypeResult(DataTypeFloat, 2, NoErr)
      [] t = "float3" -> TypeResult(DataTypeFloat, 3, NoErr)
      [] t = "float4" -> TypeResult(DataTypeFloat, 4, NoErr)
      [] t = "int"    -> TypeResult(DataTypeInt, 1, NoErr)
      [] t = "int2"   -> TypeResult(DataTypeInt, 2, NoErr)
      [] t = "int3"   -> TypeResult(DataTypeInt, 3, NoErr)
      [] t = "int4"   -> TypeResult(DataTypeInt, 4, NoErr)
      [] OTHER        -> TypeResult(0, 0, "unsupported input data type: " \o t)

(***************************************************************************)
(* backend.ShaderSources, zero-valued, and the reflection document.        *)
(***************************************************************************)
EmptyUniforms == [Blocks |-> <<>>, Locations |-> <<>>, Size |-> 0]

\* The zero value of struct{backend.ShaderSources; hlslSrc string}.  HLSL is
\* a []byte: <<>> is nil.
EmptySources ==
    [Inputs |-> <<>>, Uniforms |-> EmptyUniforms, Textures |-> <<>>,
     GLSL100ES |-> "", GLSL300ES |-> "", HLSL |-> <<>>, hlslSrc |-> ""]

\* shaderReflection, zero-valued.
EmptyStage == [inputs |-> <<>>, uniform_buffers |-> <<>>, textures |-> <<>>]

\* A reflection document: ok is whether json.Unmarshal accepts the bytes,
\* vs and fs are what it decodes them to.
Document(vs, fs) == [ok |-> TRUE, vs |-> vs, fs |-> fs]
MalformedDocument == [ok |-> FALSE, vs |-> EmptyStage, fs |-> EmptyStage]

(***************************************************************************)
(* parseReflection (main.go:168-267).                                      *)
(***************************************************************************)
\* The loop over inputRef (213-226): returns the grown Inputs and the error
\* the loop returned with, if any.
RECURSIVE appendInputs(_, _, _)
appendInputs(inputRef, k, inputs) ==
    IF k > Len(inputRef) THEN [inputs |-> inputs, err |-> NoErr]
    ELSE LET input == inputRef[k]
             dt    == parseDataType(input.type)
         IN  IF dt.err # NoErr
             THEN [inputs |-> inputs, err |-> "parseReflection: " \o dt.err]
             ELSE appendInputs(inputRef, k + 1,
                      Append(inputs,
                          [Name          |-> input.name,
                           Location      |-> input.location,
                           Semantic      |-> input.semantic,
                           SemanticIndex |-> input.semantic_index,
                           Type          |-> dt.type,
                           Size          |-> dt.size]))

swap(s, i, j) == [s EXCEPT ![i] = s[j], ![j] = s[i]]

\* less of the sort.Slice call (228).
lessLocation(a, b) == a.Location < b.Location

\* sort.Slice on a slice this short (at most 12 elements) is an insertion sort,
\* which keeps inputs of equal location in their order:
\*   for i := a+1; i < b; i++ { for j := i; j > a && less(j, j-1); j-- { swap(j, j-1) } }
RECURSIVE insertDown(_, _)
insertDown(s, j) ==
    IF j > 1 /\ lessLocation(s[j], s[j - 1])
    THEN insertDown(swap(s, j, j - 1), j - 1)
    ELSE s

RECURSIVE insertionSort(_, _)
insertionSort(s, i) ==
    IF i > Len(s) THEN s ELSE insertionSort(insertDown(s, i), i + 1)

\* Faulty variant: the inputs are left in document order.
sortInputs_none(s) == s

\* sort.Slice(info.Inputs, ...) (227-229).
sortInputs(s) == insertionSort(s, 2)

\* Faulty variant: no fallback to the fragment stage.
selectBlocks_vsOnly(reflect) == reflect.vs.uniform_buffers

\* shaderBlocks (230-233).
selectBlocks(reflect) ==
    IF Len(reflect.vs.uniform_buffers) = 0
    THEN reflect.fs.uniform_buffers
    ELSE reflect.vs.uniform_buffers

\* textures (256-259).
selectTextures(reflect) ==
    IF Len(reflect.vs.textures) = 0
    THEN reflect.fs.textures
    ELSE reflect.vs.textures

\* Faulty variant: the offset inside the block, without the base.
memberOffset_noBase(blockOffset, member) == member.offset

\* Offset: blockOffset + member.Offset (250).
memberOffset(blockOffset, member) == blockOffset + member.offset

\* The loop over block.Members (240-252).
RECURSIVE appendMembers(_, _, _, _, _)
appendMembers(block, members, k, blockOffset, locations) ==
    IF k > Len(members) THEN [locations |-> locations, err |-> NoErr]
    ELSE LET member == members[k]
             dt     == parseDataType(member.type)
         IN  IF dt.err # NoErr
             THEN [locations |-> locations, err |-> "parseReflection: " \o dt.err]
             ELSE appendMembers(block, members, k + 1, blockOffset,
                      Append(locations,
                          [Name   |-> "_" \o ToString(block.id) \o "." \o member.name,
                           Type   |-> dt.type,
                           Size   |-> dt.size,
                           Offset |-> memberOffset(blockOffset, member)]))

\* The loop over shaderBlocks (234-255).  Uniforms.Size is assigned only when
\* the loop runs to its end.
RECURSIVE appendBlocks(_, _, _, _)
appendBlocks(shaderBlocks, k, blockOffset, uniforms) ==
    IF k > Len(shaderBlocks)
    THEN [uniforms |-> [uniforms EXCEPT !.Size = blockOffset], err |-> NoErr]
    ELSE LET block == shaderBlocks[k]
             withBlock == Append(uniforms.Blocks,
                              [Name |-> block.name, Binding |-> block.binding])
             m == appendMembers(block, block.members, 1, blockOffset,
                                uniforms.Locations)
             grown == [uniforms EXCEPT !.Blocks = withBlock,
                                       !.Locations = m.locations]
         IN  IF m.err # NoErr
             THEN [uniforms |-> grown, err |-> m.err]
             ELSE appendBlocks(shaderBlocks, k + 1, blockOffset + block.block_size,
                               grown)

\* The loop over textures (260-265).
RECURSIVE appendTextures(_, _, _)
appendTextures(textures, k, bindings) ==
    IF k > Len(textures) THEN bindings
    ELSE appendTextures(textures, k + 1,
             Append(bindings,
                 [Name |-> textures[k].name, Binding |-> textures[k].binding]))

\* Faulty variant: the lists of info are replaced instead of appended to.
parseReflection_reset(jsonData, info) ==
    IF ~jsonData.ok THEN [info |-> info, err |-> "parseReflection: invalid JSON"]
    ELSE
    LET reflect == jsonData
        in == appendInputs(reflect.vs.inputs, 1, <<>>)
        ub == appendBlocks(selectBlocks(reflect), 1, 0, EmptyUniforms)
    IN  IF in.err # NoErr
        THEN [info |-> [info EXCEPT !.Inputs = in.inputs], err |-> in.err]
        ELSE IF ub.err # NoErr
        THEN [info |-> [info EXCEPT !.Inputs = sortInputs(in.inputs),
                                    !.Uniforms = ub.uniforms],
              err |-> ub.err]
        ELSE [info |-> [info EXCEPT
                          !.Inputs = sortInputs(in.inputs),
                          !.Uniforms = ub.uniforms,
                          !.Textures = appendTextures(selectTextures(reflect), 1, <<>>)],
              err |-> NoErr]

\* parseReflection(jsonData, info): the record info as the call leaves it,
\* and the error returned.  Every list is appended to what info already holds.
parseReflection(jsonData, info) ==
    IF ~jsonData.ok THEN [info |-> info, err |-> "parseReflection: invalid JSON"]
    ELSE
    LET reflect == jsonData
        in == appendInputs(reflect.vs.inputs, 1, info.Inputs)
        ub == appendBlocks(selectBlocks(reflect), 1, 0, info.Uniforms)
    IN  IF in.err # NoErr
        THEN [info |-> [info EXCEPT !.Inputs = in.inputs], err |-> in.err]
        ELSE IF ub.err # NoErr
        THEN [info |-> [info EXCEPT !.Inputs = sortInputs(in.inputs),
                                    !.Uniforms = ub.uniforms],
              err |-> ub.err]
        ELSE [info |-> [info EXCEPT
                          !.Inputs = sortInputs(in.inputs),
                          !.Uniforms = ub.uniforms,
                          !.Textures = appendTextures(selectTextures(reflect), 1,
                                                      info.Textures)],
              err |-> NoErr]

(***************************************************************************)
(* Reflection documents the parser is run on.                              *)
(***************************************************************************)
\* InputReflection number k of a stage, at the given location and type.
Input(prefix, k, location, type) ==
    [id |-> k, name |-> prefix \o ToString(k), location |-> location,
     semantic |-> "TEXCOORD", semantic_index |-> location, type |-> type]

\* The k-th input's type: supported types alternate; with bad set, the last
\* input carries a type the mapper does not know.
InputType(k, n, bad) ==
    IF bad /\ k = n THEN "double" ELSE IF k % 2 = 1 THEN "float2" ELSE "int4"

\* Every list of at most MaxInputs vertex inputs at locations 0..MaxInputs-1,
\* in every order, locations repeated or not.
LocationLists == UNION {[1..n -> 0..(MaxInputs - 1)] : n \in 0..MaxInputs}

InputLists ==
    {[k \in 1..Len(l) |-> Input("in", k, l[k], InputType(k, Len(l), bad))] :
        l \in LocationLists, bad \in BOOLEAN}

FragmentInputLists == {<<>>, <<Input("vUV", 1, 0, "float2")>>}

Member(name, type, offset, size) ==
    [name |-> name, type |-> type, offset |-> offset, size |-> size]

ColorBlock ==
    [id |-> 12, name |-> "Color", set |-> 0, binding |-> 0, block_size |-> 16,
     members |-> <<Member("_color", "float4", 0, 16)>>]

TransformBlock ==
    [id |-> 25, name |-> "Block", set |-> 0, binding |-> 1, block_size |-> 48,
     members |-> <<Member("transform", "float4", 0, 16),
                   Member("uvScale", "float2", 16, 8),
                   Member("z", "float", 24, 4),
                   Member("count", "int", 32, 4)>>]

BadBlock ==
    [id |-> 7, name |-> "Bad", set |-> 0, binding |-> 2, block_size |-> 8,
     members |-> <<Member("m", "double", 0, 8)>>]

BlockPool == {ColorBlock, TransformBlock, BadBlock}

\* Every list of at most MaxBlocks blocks of the pool, in every order.
BlockLists == UNION {[1..n -> BlockPool] : n \in 0..MaxBlocks}

Texture(name, binding) ==
    [id |-> binding + 30, name |-> name, set |-> 0, binding |-> binding,
     dimension |-> "2d", format |-> "f32"]

VertexTextureLists == {<<>>, <<Texture("heights", 1)>>}

FragmentTextureLists == {<<>>, <<Texture("tex", 0)>>, <<Texture("tex", 0), Texture("mask", 2)>>}

Stage(inputs, blocks, textures) ==
    [inputs |-> inputs, uniform_buffers |-> blocks, textures |-> textures]

\* Documents that vary the inputs.
InputDocuments ==
    {Document(Stage(i, <<>>, <<>>), Stage(fi, <<ColorBlock>>, <<Texture("tex", 0)>>)) :
        i \in InputLists, fi \in FragmentInputLists}

\* Documents that vary the uniform blocks and the textures of both stages.
UniformDocuments ==
    {Document(Stage(<<Input("in", 1, 1, "float2"), Input("in", 2, 0, "float2")>>, vb, vt),
              Stage(<<>>, fb, ft)) :
        vb \in BlockLists, fb \in BlockLists,
        vt \in VertexTextureLists, ft \in FragmentTextureLists}

ParseDocuments == InputDocuments \cup UniformDocuments \cup {MalformedDocument}

(***************************************************************************)
(* Idle values: what the variables of the other specifications hold.       *)
(***************************************************************************)
EmptyLocals ==
    [glsl100 |-> "", reflect |-> MalformedDocument, glsl300 |-> "", hlsl |-> "",
     hlslc |-> <<>>]

GenIdle ==
    /\ pc = "idle" /\ shaders = <<>> /\ fxcFound = FALSE /\ si = 0 /\ vi = 0
    /\ variants = [i \in 0..(nvariants - 1) |-> EmptySources]
    /\ loc = EmptyLocals /\ out = <<>> /\ gosrc = <<>>
    /\ artifact = [written |-> "no", content |-> <<>>]
    /\ err = NoErr /\ steps = <<>> /\ ncompile = 0

ParseIdle ==
    /\ pdoc = MalformedDocument /\ pinfo = EmptySources /\ perr = NoErr
    /\ pcount = 0 /\ pfirst = EmptySources

TypeIdle == ttokens = <<>> /\ tresults = <<>>

(***************************************************************************)
(* SpecParse: parseReflection on one document, then again on the same      *)
(* output record.                                                          *)
(***************************************************************************)
InitParse ==
    /\ pdoc \in ParseDocuments
    /\ pinfo = EmptySources /\ perr = NoErr /\ pcount = 0 /\ pfirst = EmptySources
    /\ GenIdle /\ TypeIdle

\* parseReflection(pdoc, &pinfo) on the zero-valued record.
ParseFirst ==
    /\ pcount = 0
    /\ LET r == parseReflection(pdoc, pinfo)
       IN  pinfo' = r.info /\ perr' = r.err /\ pfirst' = r.info
    /\ pcount' = 1
    /\ UNCHANGED <<pdoc, genVars, typeVars>>

\* parseReflection(pdoc, &pinfo) once more, on the record already populated.
ParseAgain ==
    /\ pcount >= 1 /\ pcount < MaxParses
    /\ LET r == parseReflection(pdoc, pinfo)
       IN  pinfo' = r.info /\ perr' = r.err
    /\ pcount' = pcount + 1
    /\ UNCHANGED <<pdoc, pfirst, genVars, typeVars>>

NextParse == ParseFirst \/ ParseAgain

SpecParse == InitParse /\ [][NextParse]_vars

(***************************************************************************)
(* SpecType: parseDataType on each token of a list.                        *)
(***************************************************************************)
Tokens ==
    {"float", "float2", "float3", "float4", "int", "int2", "int3", "int4",
     "double", "uint", "vec4", "float5", "Float", ""}

InitType ==
    /\ ttokens \in UNION {[1..n -> Tokens] : n \in 1..MaxTokens}
    /\ tresults = <<>>
    /\ GenIdle /\ ParseIdle

MapToken ==
    /\ Len(tresults) < Len(ttokens)
    /\ tresults' = Append(tresults, parseDataType(ttokens[Len(tresults) + 1]))
    /\ UNCHANGED <<ttokens, genVars, parseVars>>

NextType == MapToken

SpecType == InitType /\ [][NextType]_vars

(***************************************************************************)
(* generate (main.go:41-166).                                              *)
(***************************************************************************)
\* A path found by the glob: shaders/<base>, the base name given as its
\* parts between the dots (blit.frag is <<"blit", "frag">>).
Path(parts) == [dir |-> "shaders", parts |-> parts]

\* The parts from the k-th on, with sep before each.
RECURSIVE joinFrom(_, _, _)
joinFrom(parts, k, sep) ==
    IF k > Len(parts) THEN "" ELSE sep \o parts[k] \o joinFrom(parts, k + 1, sep)

\* filepath.Base(path)
Base(path) == path.parts[1] \o joinFrom(path.parts, 2, ".")

\* The path as a string.
FullPath(path) == path.dir \o "/" \o Base(path)

\* filepath.Ext(path): the suffix of the base name from its last dot on.
Ext(path) ==
    IF Len(path.parts) > 1 THEN "." \o path.parts[Len(path.parts)] ELSE ""

\* strings.ReplaceAll(filepath.Base(shader), ".", "_") (119-120): every dot
\* of the base name becomes an underscore.
entryName(path) == path.parts[1] \o joinFrom(path.parts, 2, "_")

\* The files of the shaders directory, in the order the glob lists them.
ShaderFiles ==
    <<Path(<<"blit", "frag">>), Path(<<"cover", "es", "vert">>), Path(<<"notes", "txt">>)>>

\* The increasing enumeration of a set of indices into ShaderFiles.
RECURSIVE Listing(_, _)
Listing(S, k) ==
    IF k > Len(ShaderFiles) THEN <<>>
    ELSE IF k \in S THEN <<ShaderFiles[k]>> \o Listing(S, k + 1)
    ELSE Listing(S, k + 1)

\* Every directory content of at most MaxShaders files.
ShaderLists ==
    {Listing(S, 1) : S \in {T \in SUBSET (1..Len(ShaderFiles)) : Cardinality(T) <= MaxShaders}}

\* args (70-79): the template values of the variants.
args ==
    [i \in 0..(nvariants - 1) |->
        IF i = 0
        THEN [FetchColorExpr |-> "_color",
              Header |-> "layout(binding=0) uniform Color { vec4 _color; };"]
        ELSE [FetchColorExpr |-> "texture(tex, vUV)",
              Header |-> "layout(binding=0) uniform sampler2D tex;"]]

\* What glslcc may write for a target, given the template values: the text of
\* a template that does not use them, or of one that fetches the color.
Texts(lang, profile, a) ==
    {lang \o profile \o ": plain", lang \o profile \o ": " \o a.FetchColorExpr}

\* Reflection documents glslcc may write during a run.
ColorDocument ==
    Document(Stage(<<Input("in", 1, 1, "float2"), Input("in", 2, 0, "float4")>>, <<>>, <<>>),
             Stage(<<Input("vUV", 1, 0, "float2")>>, <<ColorBlock>>, <<>>))

TextureDocument ==
    Document(Stage(<<Input("in", 1, 0, "float2")>>, <<TransformBlock>>, <<>>),
             Stage(<<>>, <<>>, <<Texture("tex", 0)>>))

DoubleDocument ==
    Document(Stage(<<Input("in", 1, 0, "float2"), Input("in", 2, 1, "double")>>, <<>>, <<>>),
             Stage(<<>>, <<ColorBlock>>, <<>>))

RunDocuments == {ColorDocument, TextureDocument, DoubleDocument, MalformedDocument}

\* convertShader (312-370): the (text, reflect, err) results a call may have.
\* The template, the scratch file, glslcc and the reads of its output may
\* each fail; a path that is neither .vert nor .frag always fails (328-337).
convertResults(path, lang, profile, a) ==
    LET failures ==
            {[src |-> "", reflect |-> MalformedDocument, err |-> e] :
                e \in {"template: " \o FullPath(path), FullPath(path) \o ": exit status 1"}}
        unrecognized ==
            {[src |-> "", reflect |-> MalformedDocument,
              err |-> "unrecognized shader type: " \o FullPath(path)]}
        successes ==
            {[src |-> t, reflect |-> d, err |-> NoErr] :
                t \in Texts(lang, profile, a), d \in RunDocuments}
    IN  IF Ext(path) \in {".vert", ".frag"}
        THEN failures \cup successes
        ELSE {r \in failures : r.err = "template: " \o FullPath(path)} \cup unrecognized

\* compileHLSL (292-310): the (bytecode, err) results a call may have.
compileResults(src, entry, profile) ==
    {[code |-> <<"DXBC", profile, entry, src>>, err |-> NoErr],
     [code |-> <<>>, err |-> "fxc: exit status 1"]}

\* Faulty variant: the error is not looked at.
failed_never(e) == FALSE

\* if err != nil { return err } (82, 87, 91, 95, 110)
failed(e) == e # NoErr

\* glsl100 = "#version 100\n" + glsl100 (86)
version100(glsl100) == "#version 100\n" \o glsl100

\* switch filepath.Ext(shader) (98-106); "" stands for the default case.
hlslProfile(path) ==
    CASE Ext(path) = ".frag" -> "ps"
      [] Ext(path) = ".vert" -> "vs"
      [] OTHER -> ""

\* Faulty variant: fxc is run whether it was found or not.
compileWanted_always(found) == TRUE

\* if fxcFound (108)
compileWanted(found) == found

\* Faulty variant: the whole records are compared.
multiVariant_anyField(v) == v[0] # v[1]

\* multiVariant := variants[0].GLSL100ES != variants[1].GLSL100ES (124)
multiVariant(v) == v[0].GLSL100ES # v[1].GLSL100ES

\* for _, src := range variants { ...; if !multiVariant { break } } (128-155)
emitted(v) == IF multiVariant(v) THEN <<v[0], v[1]>> ELSE <<v[0]>>

\* What lines 119-158 write into out for one shader file.
entry(path, v) ==
    [name |-> "shader_" \o entryName(path), multi |-> multiVariant(v),
     sources |-> emitted(v)]

\* One entry of steps.
Call(name, e) == [call |-> name, err |-> e]

ZeroVariants == [i \in 0..(nvariants - 1) |-> EmptySources]
NoArtifact == [written |-> "no", content |-> <<>>]

\* Faulty variant: the reflection of the later calls is parsed as well.
reflection300_parsed(info, reflect) == parseReflection(reflect, info).info

\* glsl300, _, err := convertShader(...) (90, 94): the reflection of the
\* profile "300" and HLSL calls is dropped.
reflection300(info, reflect) == info

InitGen ==
    /\ pc = "start"
    /\ shaders \in ShaderLists
    /\ fxcFound \in BOOLEAN
    /\ si = 0 /\ vi = 0
    /\ variants = ZeroVariants
    /\ loc = EmptyLocals
    /\ out = <<>> /\ gosrc = <<>> /\ artifact = NoArtifact
    /\ err = NoErr /\ steps = <<>> /\ ncompile = 0
    /\ ParseIdle /\ TypeIdle

\* return err: generate is over; its locals are gone, what it last read from
\* the tools (loc), the position and the calls made are kept for inspection.
Abort(e) ==
    /\ pc' = "done" /\ err' = e
    /\ variants' = ZeroVariants /\ out' = <<>>
    /\ UNCHANGED <<shaders, fxcFound, si, vi, gosrc, artifact, ncompile>>

\* The head of the loop over shaders (64), entered with index k.
EnterShader(k) ==
    /\ si' = k /\ vi' = 0 /\ variants' = ZeroVariants /\ loc' = EmptyLocals
    /\ steps' = <<>>
    /\ pc' = IF k > Len(shaders) THEN "format" ELSE "convert100"

\* Lines 42-63: the temp dir, the tool lookups, the glob, the header.
Start ==
    /\ pc = "start"
    /\ \E e \in {NoErr, "TempDir", "glslcc: executable file not found"} :
         IF failed(e)
         THEN Abort(e) /\ UNCHANGED <<loc, steps>>
         ELSE EnterShader(1) /\ UNCHANGED <<shaders, fxcFound, out, gosrc, artifact, err, ncompile>>
    /\ UNCHANGED <<parseVars, typeVars>>

\* Line 81-84.
Convert100 ==
    /\ pc = "convert100"
    /\ \E r \in convertResults(shaders[si], "gles", "100", args[vi]) :
         /\ steps' = Append(steps, Call("convert gles 100", r.err))
         /\ IF failed(r.err)
            THEN Abort(r.err) /\ UNCHANGED loc
            ELSE /\ loc' = [loc EXCEPT !.glsl100 = r.src, !.reflect = r.reflect]
                 /\ pc' = "parse"
                 /\ UNCHANGED <<shaders, fxcFound, si, vi, variants, out, gosrc,
                                artifact, err, ncompile>>
    /\ UNCHANGED <<parseVars, typeVars>>

\* Lines 86-89.
ParseReflect ==
    /\ pc = "parse"
    /\ LET glsl100 == version100(loc.glsl100)
           r == parseReflection(loc.reflect, variants[vi])
       IN  /\ steps' = Append(steps, Call("parseReflection", r.err))
           /\ IF failed(r.err)
              THEN Abort(r.err) /\ loc' = [loc EXCEPT !.glsl100 = glsl100]
              ELSE /\ loc' = [loc EXCEPT !.glsl100 = glsl100]
                   /\ variants' = [variants EXCEPT ![vi] = r.info]
                   /\ pc' = "convert300"
                   /\ UNCHANGED <<shaders, fxcFound, si, vi, out, gosrc, artifact,
                                  err, ncompile>>
    /\ UNCHANGED <<parseVars, typeVars>>

\* Lines 90-93.
Convert300 ==
    /\ pc = "convert300"
    /\ \E r \in convertResults(shaders[si], "gles", "300", args[vi]) :
         /\ steps' = Append(steps, Call("convert gles 300", r.err))
         /\ IF failed(r.err)
            THEN Abort(r.err) /\ UNCHANGED loc
            ELSE /\ loc' = [loc EXCEPT !.glsl300 = r.src]
                 /\ variants' = [variants EXCEPT ![vi] = reflection300(@, r.reflect)]
                 /\ pc' = "convertHLSL"
                 /\ UNCHANGED <<shaders, fxcFound, si, vi, out, gosrc, artifact, err,
                                ncompile>>
    /\ UNCHANGED <<parseVars, typeVars>>

\* Lines 94-106.
ConvertHLSL ==
    /\ pc = "convertHLSL"
    /\ \E r \in convertResults(shaders[si], "hlsl", "40", args[vi]) :
         /\ steps' = Append(steps, Call("convert hlsl 40", r.err))
         /\ IF failed(r.err)
            THEN Abort(r.err) /\ UNCHANGED loc
            ELSE IF hlslProfile(shaders[si]) = ""
            THEN Abort("unrecognized shader type " \o FullPath(shaders[si]))
                 /\ UNCHANGED loc
            ELSE /\ loc' = [loc EXCEPT !.hlsl = r.src]
                 /\ variants' = [variants EXCEPT ![vi] = reflection300(@, r.reflect)]
                 /\ pc' = IF compileWanted(fxcFound) THEN "compile" ELSE "assign"
                 /\ UNCHANGED <<shaders, fxcFound, si, vi, out, gosrc, artifact, err,
                                ncompile>>
    /\ UNCHANGED <<parseVars, typeVars>>

\* Lines 108-113, when fxc was found.
CompileHLSL ==
    /\ pc = "compile"
    /\ \E r \in compileResults(loc.hlsl, "main", hlslProfile(shaders[si]) \o "_4_0") :
         /\ steps' = Append(steps, Call("compileHLSL", r.err))
         /\ ncompile' = ncompile + 1
         /\ IF failed(r.err)
            THEN /\ pc' = "done" /\ err' = r.err
                 /\ variants' = ZeroVariants /\ out' = <<>>
                 /\ UNCHANGED <<shaders, fxcFound, si, vi, gosrc, artifact, loc>>
            ELSE /\ loc' = [loc EXCEPT !.hlslc = r.code]
                 /\ pc' = "assign"
                 /\ UNCHANGED <<shaders, fxcFound, si, vi, variants, out, gosrc,
                                artifact, err>>
    /\ UNCHANGED <<parseVars, typeVars>>

\* Lines 114-118: the variant's fields, and the next round of the loop.
Assign ==
    /\ pc = "assign"
    /\ variants' = [variants EXCEPT ![vi] =
                       [@ EXCEPT !.GLSL100ES = loc.glsl100,
                                 !.GLSL300ES = loc.glsl300,
                                 !.hlslSrc   = loc.hlsl,
                                 !.HLSL      = loc.hlslc]]
    /\ IF vi + 1 < nvariants
       THEN /\ vi' = vi + 1 /\ pc' = "convert100" /\ loc' = EmptyLocals /\ steps' = <<>>
       ELSE /\ pc' = "emit" /\ UNCHANGED <<vi, loc, steps>>
    /\ UNCHANGED <<shaders, fxcFound, si, out, gosrc, artifact, err, ncompile>>
    /\ UNCHANGED <<parseVars, typeVars>>

\* Lines 119-159: the shader's entry, and the next round of the loop.
Emit ==
    /\ pc = "emit"
    /\ out' = Append(out, entry(shaders[si], variants))
    /\ EnterShader(si + 1)
    /\ UNCHANGED <<shaders, fxcFound, gosrc, artifact, err, ncompile>>
    /\ UNCHANGED <<parseVars, typeVars>>

\* Lines 160-164: format.Source accepts the buffer or not (it does not when
\* the -package flag is no Go identifier).
Format ==
    /\ pc = "format"
    /\ \E e \in {NoErr, "shader.go: format"} :
         IF failed(e)
         THEN Abort(e) /\ UNCHANGED <<loc, steps>>
         ELSE /\ gosrc' = out /\ pc' = "write"
              /\ UNCHANGED <<shaders, fxcFound, si, vi, variants, loc, out, artifact,
                             err, steps, ncompile>>
    /\ UNCHANGED <<parseVars, typeVars>>

\* Line 165: ioutil.WriteFile; when it fails the file may hold a part.
Write ==
    /\ pc = "write"
    /\ \/ /\ artifact' = [written |-> "complete", content |-> gosrc]
          /\ err' = NoErr
       \/ /\ artifact' \in {NoArtifact, [written |-> "partial", content |-> <<>>]}
          /\ err' = "WriteFile"
    /\ pc' = "done"
    /\ variants' = ZeroVariants /\ out' = <<>>
    /\ UNCHANGED <<shaders, fxcFound, si, vi, loc, gosrc, steps, ncompile>>
    /\ UNCHANGED <<parseVars, typeVars>>

Init == InitGen

Next ==
    \/ Start \/ Convert100 \/ ParseReflect \/ Convert300 \/ ConvertHLSL
    \/ CompileHLSL \/ Assign \/ Emit \/ Format \/ Write

Spec == Init /\ [][Next]_vars

(***************************************************************************)
(* Properties of parseDataType and parseReflection.                        *)
(***************************************************************************)
\* The eight supported tokens with the pair each maps to.
SupportedPairs ==
    {<<"float", DataTypeFloat, 1>>, <<"float2", DataTypeFloat, 2>>,
     <<"float3", DataTypeFloat, 3>>, <<"float4", DataTypeFloat, 4>>,
     <<"int", DataTypeInt, 1>>, <<"int2", DataTypeInt, 2>>,
     <<"int3", DataTypeInt, 3>>, <<"int4", DataTypeInt, 4>>}

SupportedTokens == {m[1] : m \in SupportedPairs}

DistinctLocations(inputs) ==
    \A a, b \in 1..Len(inputs) : a # b => inputs[a].location # inputs[b].location

AllSupported(inputs) == \A k \in 1..Len(inputs) : inputs[k].type \in SupportedTokens

\* Number of positions of s holding x.
Count(s, x) == Cardinality({k \in 1..Len(s) : s[k] = x})

\* s followed by itself, n times over.
RECURSIVE Repeat(_, _)
Repeat(s, n) == IF n = 0 THEN <<>> ELSE s \o Repeat(s, n - 1)

\* Sum of block_size over the first n blocks.
RECURSIVE SizeOfFirst(_, _)
SizeOfFirst(blocks, n) ==
    IF n = 0 THEN 0 ELSE SizeOfFirst(blocks, n - 1) + blocks[n].block_size

\* Number of members of the first n blocks.
RECURSIVE MembersOfFirst(_, _)
MembersOfFirst(blocks, n) ==
    IF n = 0 THEN 0 ELSE MembersOfFirst(blocks, n - 1) + Len(blocks[n].members)

BlockHeaders(blocks) ==
    [k \in 1..Len(blocks) |-> [Name |-> blocks[k].name, Binding |-> blocks[k].binding]]

TextureBindings(textures) ==
    [k \in 1..Len(textures) |-> [Name |-> textures[k].name, Binding |-> textures[k].binding]]

\* The blocks and textures the claims call selected.
ChosenBlocks ==
    IF pdoc.vs.uniform_buffers # <<>> THEN pdoc.vs.uniform_buffers
    ELSE pdoc.fs.uniform_buffers

FirstParseDone == pcount = 1 /\ pdoc.ok

\* C4: for a document whose vertex stage lists N inputs at pairwise distinct
\* locations, in any order, the parse leaves exactly those N inputs in Inputs,
\* strictly ascending by location, and no fragment-stage input among them.
C4_InputsSortedByLocation ==
    (FirstParseDone /\ DistinctLocations(pdoc.vs.inputs) /\ AllSupported(pdoc.vs.inputs))
    => /\ Len(pinfo.Inputs) = Len(pdoc.vs.inputs)
       /\ \A j \in 1..(Len(pinfo.Inputs) - 1) :
              pinfo.Inputs[j].Location < pinfo.Inputs[j + 1].Location
       /\ \A k \in 1..Len(pdoc.vs.inputs) :
              \E j \in 1..Len(pinfo.Inputs) :
                  /\ pinfo.Inputs[j].Name = pdoc.vs.inputs[k].name
                  /\ pinfo.Inputs[j].Location = pdoc.vs.inputs[k].location
                  /\ pinfo.Inputs[j].Semantic = pdoc.vs.inputs[k].semantic
                  /\ pinfo.Inputs[j].SemanticIndex = pdoc.vs.inputs[k].semantic_index
       /\ \A j \in 1..Len(pinfo.Inputs) : \A f \in 1..Len(pdoc.fs.inputs) :
              pinfo.Inputs[j].Name # pdoc.fs.inputs[f].name

\* Three vertex inputs listed at locations 2, 0, 1 beside a fragment input
\* come out at locations 0, 1, 2.
C4_Witness ==
    /\ FirstParseDone
    /\ Len(pdoc.vs.inputs) = 3
    /\ [k \in 1..3 |-> pdoc.vs.inputs[k].location] = <<2, 0, 1>>
    /\ Len(pdoc.fs.inputs) = 1
    /\ Len(pinfo.Inputs) = 3
    /\ [k \in 1..3 |-> pinfo.Inputs[k].Location] = <<0, 1, 2>>
    /\ [k \in 1..3 |-> pinfo.Inputs[k].Name] = <<"in2", "in3", "in1">>

\* C5: the selected blocks are laid out one after the other in source order:
\* a member's Offset is the sum of the sizes of the blocks before its block
\* plus its offset in the block, and Uniforms.Size is the sum of all sizes.
C5_UniformOffsetsFlattened ==
    (FirstParseDone /\ perr = NoErr)
    => LET blocks == ChosenBlocks
           locs   == pinfo.Uniforms.Locations
       IN  /\ pinfo.Uniforms.Size = SizeOfFirst(blocks, Len(blocks))
           /\ Len(locs) = MembersOfFirst(blocks, Len(blocks))
           /\ \A k \in 1..Len(blocks) : \A m \in 1..Len(blocks[k].members) :
                  locs[MembersOfFirst(blocks, k - 1) + m].Offset
                      = SizeOfFirst(blocks, k - 1) + blocks[k].members[m].offset
           /\ Len(blocks) = 2 =>
                  /\ pinfo.Uniforms.Size = blocks[1].block_size + blocks[2].block_size
                  /\ \A m \in 1..Len(blocks[2].members) :
                         locs[Len(blocks[1].members) + m].Offset
                             = blocks[1].block_size + blocks[2].members[m].offset

\* Block (48 bytes) then Color (16 bytes): _color lands at 48, the size is 64.
C5_Witness ==
    /\ FirstParseDone /\ perr = NoErr
    /\ pdoc.vs.uniform_buffers = <<TransformBlock, ColorBlock>>
    /\ Len(pinfo.Uniforms.Locations) = 5
    /\ pinfo.Uniforms.Locations[2].Offset = 16
    /\ pinfo.Uniforms.Locations[5].Name = "_12._color"
    /\ pinfo.Uniforms.Locations[5].Offset = 48
    /\ pinfo.Uniforms.Size = 64

\* C6: with no vertex-stage uniform block the parsed blocks are those of the
\* fragment stage, in order; with at least one, the fragment-stage blocks are
\* not used at all (not even looked at for errors).  Textures follow the same
\* rule, decided on their own.
C6_FragmentFallback ==
    /\ (FirstParseDone /\ perr = NoErr) =>
          /\ pdoc.vs.uniform_buffers = <<>> =>
                /\ pinfo.Uniforms.Blocks = BlockHeaders(pdoc.fs.uniform_buffers)
                /\ pinfo.Uniforms.Size =
                       SizeOfFirst(pdoc.fs.uniform_buffers, Len(pdoc.fs.uniform_buffers))
          /\ pdoc.vs.uniform_buffers # <<>> =>
                /\ pinfo.Uniforms.Blocks = BlockHeaders(pdoc.vs.uniform_buffers)
                /\ pinfo.Uniforms.Size =
                       SizeOfFirst(pdoc.vs.uniform_buffers, Len(pdoc.vs.uniform_buffers))
          /\ pdoc.vs.textures = <<>> =>
                pinfo.Textures = TextureBindings(pdoc.fs.textures)
          /\ pdoc.vs.textures # <<>> =>
                pinfo.Textures = TextureBindings(pdoc.vs.textures)
    /\ (/\ FirstParseDone
        /\ AllSupported(pdoc.vs.inputs)
        /\ pdoc.vs.uniform_buffers # <<>>
        /\ \A k \in 1..Len(pdoc.vs.uniform_buffers) :
               AllSupported(pdoc.vs.uniform_buffers[k].members))
       => perr = NoErr

\* The vertex stage has a texture and no block, the fragment stage has both:
\* the blocks are the fragment stage's, the texture is the vertex stage's.
C6_Witness ==
    /\ FirstParseDone /\ perr = NoErr
    /\ pdoc.vs.uniform_buffers = <<>>
    /\ pdoc.fs.uniform_buffers = <<ColorBlock, TransformBlock>>
    /\ pdoc.vs.textures = <<Texture("heights", 1)>>
    /\ pdoc.fs.textures = <<Texture("tex", 0), Texture("mask", 2)>>
    /\ pinfo.Uniforms.Blocks = <<[Name |-> "Color", Binding |-> 0],
                                 [Name |-> "Block", Binding |-> 1]>>
    /\ pinfo.Textures = <<[Name |-> "heights", Binding |-> 1]>>

\* C7: each of the eight supported tokens maps to its fixed pair with no
\* error; any other token gives the unsupported-type error and no pair.
C7_TypeMapping ==
    \A k \in 1..Len(tresults) :
        LET t == ttokens[k]
            r == tresults[k]
        IN  /\ \A m \in SupportedPairs :
                   m[1] = t => (r.type = m[2] /\ r.size = m[3] /\ r.err = NoErr)
            /\ t \notin SupportedTokens =>
                   /\ r.err = "unsupported input data type: " \o t
                   /\ r.size = 0

C7_Witness ==
    /\ ttokens = <<"int4", "double">>
    /\ Len(tresults) = 2
    /\ tresults[1] = [type |-> DataTypeInt, size |-> 4, err |-> NoErr]
    /\ tresults[2].err # NoErr

\* C8 as claimed: after the second parse of a document the record holds the
\* same Inputs, uniform Locations and Textures as after the first.
C8_Idempotent ==
    pcount = 2 =>
        /\ pinfo.Inputs = pfirst.Inputs
        /\ pinfo.Uniforms.Locations = pfirst.Uniforms.Locations
        /\ pinfo.Textures = pfirst.Textures

\* C8 as amended: a parse appends to the record.  After n successful parses of
\* one document into one record, Blocks, Locations and Textures are the first
\* parse's sequences n times over, Inputs holds each input of the first parse
\* n times, ascending by location, and Size is that of the first parse; the
\* second parse reproduces the first only when the first produced nothing.
C8_ParseAppends ==
    (pcount >= 1 /\ perr = NoErr) =>
        /\ pinfo.Textures = Repeat(pfirst.Textures, pcount)
        /\ pinfo.Uniforms.Locations = Repeat(pfirst.Uniforms.Locations, pcount)
        /\ pinfo.Uniforms.Blocks = Repeat(pfirst.Uniforms.Blocks, pcount)
        /\ pinfo.Uniforms.Size = pfirst.Uniforms.Size
        /\ Len(pinfo.Inputs) = pcount * Len(pfirst.Inputs)
        /\ \A j \in 1..(Len(pinfo.Inputs) - 1) :
               pinfo.Inputs[j].Location <= pinfo.Inputs[j + 1].Location
        /\ \A k \in 1..Len(pfirst.Inputs) :
               Count(pinfo.Inputs, pfirst.Inputs[k])
                   = pcount * Count(pfirst.Inputs, pfirst.Inputs[k])
        /\ pcount >= 2 =>
               ((/\ pinfo.Inputs = pfirst.Inputs
                 /\ pinfo.Uniforms.Locations = pfirst.Uniforms.Locations
                 /\ pinfo.Textures = pfirst.Textures)
                <=> (/\ pfirst.Inputs = <<>>
                     /\ pfirst.Uniforms.Locations = <<>>
                     /\ pfirst.Textures = <<>>))

\* Two inputs, one block and one texture, parsed twice: four inputs, two
\* blocks, two textures.
C8_Witness ==
    /\ pcount = 2 /\ perr = NoErr
    /\ Len(pfirst.Inputs) = 2 /\ Len(pinfo.Inputs) = 4
    /\ [k \in 1..4 |-> pinfo.Inputs[k].Location] = <<0, 0, 1, 1>>
    /\ Len(pfirst.Uniforms.Locations) = 1 /\ Len(pinfo.Uniforms.Locations) = 2
    /\ Len(pfirst.Textures) = 1 /\ Len(pinfo.Textures) = 2

(***************************************************************************)
(* Properties of generate.                                                 *)
(***************************************************************************)
\* The names of the calls logged in steps.
Calls == [k \in 1..Len(steps) |-> steps[k].call]

IsPrefix(s, t) == Len(s) <= Len(t) /\ \A k \in 1..Len(s) : s[k] = t[k]

\* Inputs, uniforms and textures of a variant.
Reflection(v) == <<v.Inputs, v.Uniforms, v.Textures>>

\* Every ShaderSources written into a buffer of entries.
EmittedSources(entries) ==
    UNION {{entries[k].sources[j] : j \in 1..Len(entries[k].sources)} : k \in 1..Len(entries)}

\* C1: a failed step of any shader file and variant is the last step of the
\* run: generate is over and returns that error, nothing runs after it, and
\* shaders.go is not written.  shaders.go is written only by a run that has
\* processed every shader file, both variants each, without error.
C1_FailureAborts ==
    /\ [](\A k \in 1..Len(steps) :
              steps[k].err # NoErr =>
                  /\ k = Len(steps)
                  /\ pc = "done"
                  /\ err = steps[k].err
                  /\ artifact = NoArtifact)
    /\ [](err # NoErr /\ err # "WriteFile" => pc = "done" /\ artifact = NoArtifact)
    /\ [](artifact # NoArtifact =>
              /\ pc = "done"
              /\ si = Len(shaders) + 1
              /\ Len(gosrc) = Len(shaders)
              /\ \A k \in 1..Len(steps) : steps[k].err = NoErr)
    /\ [][pc # "done"]_vars

\* The first file went through; the bytecode compiler fails on the second
\* variant of the second file, and the run is over with nothing written.
C1_Witness ==
    /\ pc = "done" /\ err = "fxc: exit status 1"
    /\ Len(shaders) = 2 /\ si = 2 /\ vi = 1
    /\ Len(steps) = 5 /\ steps[5] = Call("compileHLSL", "fxc: exit status 1")
    /\ artifact = NoArtifact

\* C2: when a file's two variants are complete, its entry holds one record
\* (the first variant's) if their GLSL100ES texts are equal and otherwise both
\* records in variant order; nothing else of the variants decides it.
C2_Deduplication ==
    [][pc = "emit" =>
          /\ Len(out') = Len(out) + 1
          /\ SubSeq(out', 1, Len(out)) = out
          /\ out'[Len(out')].sources =
                 IF variants[0].GLSL100ES = variants[1].GLSL100ES
                 THEN <<variants[0]>>
                 ELSE <<variants[0], variants[1]>>]_vars

\* Two files emitted: one record for the first, and for the second, whose
\* variants differ in GLSL100ES alone, both records.
C2_Witness ==
    /\ Len(out) = 2
    /\ out[1].name = "shader_blit_frag"
    /\ out[2].name = "shader_cover_es_vert"
    /\ Len(out[1].sources) = 1
    /\ Len(out[2].sources) = 2
    /\ out[2].sources[1].GLSL100ES # out[2].sources[2].GLSL100ES
    /\ out[2].sources[1].GLSL300ES = out[2].sources[2].GLSL300ES
    /\ out[2].sources[1].hlslSrc = out[2].sources[2].hlslSrc
    /\ Reflection(out[2].sources[1]) = Reflection(out[2].sources[2])

\* C3: without fxc the run goes on: compileHLSL is never called, no variant
\* and no emitted record has bytecode, and the three texts of a variant are
\* assigned from the converter's results as they are with fxc.
C3_NoBytecodeCompiler ==
    /\ [](~fxcFound =>
              /\ ncompile = 0
              /\ \A k \in 1..Len(steps) : steps[k].call # "compileHLSL"
              /\ err # "fxc: exit status 1"
              /\ \A i \in 0..(nvariants - 1) : variants[i].HLSL = <<>>
              /\ \A src \in EmittedSources(out) \cup EmittedSources(gosrc)
                            \cup EmittedSources(artifact.content) : src.HLSL = <<>>)
    /\ [][pc = "assign" =>
              /\ variants'[vi].GLSL100ES = loc.glsl100
              /\ variants'[vi].GLSL300ES = loc.glsl300
              /\ variants'[vi].hlslSrc = loc.hlsl
              /\ variants'[vi].HLSL =
                     IF fxcFound THEN <<"DXBC", hlslProfile(shaders[si]) \o "_4_0", "main", loc.hlsl>>
                     ELSE <<>>]_vars

\* A run without fxc wrote both files' entries, texts present, bytecode absent.
C3_Witness ==
    /\ ~fxcFound /\ pc = "done" /\ err = NoErr
    /\ artifact.written = "complete" /\ Len(artifact.content) = 2
    /\ \A src \in EmittedSources(artifact.content) :
           /\ src.HLSL = <<>>
           /\ \E i \in 0..(nvariants - 1) :
                  /\ src.GLSL100ES \in {"#version 100\n" \o t : t \in Texts("gles", "100", args[i])}
                  /\ src.GLSL300ES \in Texts("gles", "300", args[i])
                  /\ src.hlslSrc \in Texts("hlsl", "40", args[i])

\* C9: when the reflection document parsed for a variant has an input of an
\* unsupported type, the run is over with the unsupported-type error and
\* shaders.go is not written.
C9_UnsupportedInputAborts ==
    (/\ steps # <<>>
     /\ steps[Len(steps)].call = "parseReflection"
     /\ loc.reflect.ok
     /\ ~AllSupported(loc.reflect.vs.inputs))
    => /\ pc = "done"
       /\ \E k \in 1..Len(loc.reflect.vs.inputs) :
              /\ loc.reflect.vs.inputs[k].type \notin SupportedTokens
              /\ err = "parseReflection: unsupported input data type: "
                           \o loc.reflect.vs.inputs[k].type
       /\ artifact = NoArtifact

\* The second variant of the second file reflects an input of type double.
C9_Witness ==
    /\ si = 2 /\ vi = 1 /\ Len(out) = 0 /\ pc = "done"
    /\ loc.reflect = DoubleDocument
    /\ steps[Len(steps)].call = "parseReflection"
    /\ err = "parseReflection: unsupported input data type: double"
    /\ artifact = NoArtifact

\* The calls of one variant, in the order of the loop body.
VariantCalls ==
    <<"convert gles 100", "parseReflection", "convert gles 300", "convert hlsl 40">>
        \o (IF fxcFound THEN <<"compileHLSL">> ELSE <<>>)

\* C10: the calls of a variant are made in the order gles 100, reflection
\* parse, gles 300, hlsl 40, then compileHLSL if fxc was found; a completed
\* variant has made each once.  What the variant reflects is the parse of the
\* document of the gles 100 call, and no later call changes it.
C10_StepOrder ==
    /\ [](/\ IsPrefix(Calls, VariantCalls)
          /\ pc \in {"assign", "emit"} => Calls = VariantCalls
          /\ pc \in {"convert300", "convertHLSL", "compile", "assign"} =>
                 Reflection(variants[vi]) =
                     Reflection(parseReflection(loc.reflect, EmptySources).info))
    /\ [][(pc \in {"convert300", "convertHLSL", "compile", "assign"} /\ pc' # "done")
              => Reflection(variants'[vi]) = Reflection(variants[vi])]_vars

\* All five calls made for the second variant, which reflects the document
\* of its gles 100 call.
C10_Witness ==
    /\ pc = "assign" /\ vi = 1 /\ fxcFound
    /\ Calls = <<"convert gles 100", "parseReflection", "convert gles 300",
                 "convert hlsl 40", "compileHLSL">>
    /\ loc.reflect = ColorDocument
    /\ [k \in 1..2 |-> variants[1].Inputs[k].Location] = <<0, 1>>
    /\ Len(variants[1].Uniforms.Blocks) = 1
    /\ variants[0].Textures # <<>>

====
